---- MODULE Spec2Model ----
(***************************************************************************)
(* The Dyson BP01 Homebridge accessory: a device-state reconciliation      *)
(* engine that drives a fan through a one-way infrared channel.            *)
(*                                                                         *)
(* The repository holds three historical implementations of the accessory  *)
(* class.  The variable `design` says which one is running:                *)
(*   "queue"    src/src/accessory.ts 39-403   command queue + emulated     *)
(*              lookahead, one 600 ms tick and one 2000 ms ping interval   *)
(*   "priority" src/src/accessory.ts 432-975  target/current pairs, skips, *)
(*              an alive flag that gates the control surface               *)
(*   "loop"     src/unnamed/part_000 181-589  target/current pairs, skips, *)
(*              no alive flag (isDeviceConnected returns a local)          *)
(*                                                                         *)
(* A step of the model is one run-to-completion piece of JavaScript: a     *)
(* timer callback or handler up to its first await on real I/O (the ping   *)
(* probe, node-persist's setItem), or the continuation after it.           *)
(***************************************************************************)
EXTENDS Integers, Sequences, FiniteSets, TLC

VARIABLES
    design,               \* which implementation is running
    macAddress,           \* accessoryConfig.macAddress ("undefined" when absent)
    device,               \* this.device: "null" or the MAC of the bound device
    discovering,          \* broadLinkJS.discover() has been called
    alive,                \* this.alive
    deviceState,          \* queue: this._deviceState
    commandQueue,         \* queue: this.commandQueue
    devicePingFail,       \* queue: this.devicePingFail
    inflight,             \* queue: the command a tick holds across its await
    waiters,              \* queue: ids whose completion poll is still running
    fanV2Characteristics, \* priority/loop: target and current characteristics
    skips,                \* priority/loop: the skip counters
    probing,              \* number of callbacks awaiting ping.promise.probe
    persisting,           \* priority/loop: ticks awaiting localStorage.setItem
    storage,              \* the item node-persist holds under accessoryConfig.name
    last                  \* what the last step did (observation only)

vars == <<design, macAddress, device, discovering, alive, deviceState,
          commandQueue, devicePingFail, inflight, waiters,
          fanV2Characteristics, skips, probing, persisting, storage, last>>

queueVars == <<deviceState, commandQueue, devicePingFail, inflight, waiters>>
targetVars == <<fanV2Characteristics, skips, persisting>>
bindVars == <<design, macAddress, device, discovering>>

\* everything but the observation
stateVars == <<design, macAddress, device, discovering, alive, deviceState,
               commandQueue, devicePingFail, inflight, waiters,
               fanV2Characteristics, skips, probing, persisting, storage>>

----------------------------------------------------------------------------
(* Bounds of the model *)

\* most commands the queue holds: a write that would exceed it is not explored
MaxQueue == 3
\* most timer callbacks awaiting I/O at the same time
MaxInFlight == 1
\* most completion polls running at the same time
MaxPolls == 2
\* most tick callbacks awaiting I/O at the same time where ticks overlap
MaxOverlap == 2

----------------------------------------------------------------------------
(* Program constants *)

\* constants.ts is not among the source files.  A skip is set and then
\* decremented in the same tick, so only a value of 2 or more is ever seen
\* nonzero by a later tick, as the guards that read the skips expect
SKIPS_DEVICE_PING_FAIL == 3
SKIPS_UPDATE_CURRENT_ACTIVE_ACTIVE == 3
SKIPS_UPDATE_CURRENT_ACTIVE_INACTIVE == 2
SKIPS_UPDATE_CURRENT_SWING_MODE == 2
ROTATION_SPEED_STEP_SIZE == 10

\* the same constants under the names of src/unnamed/part_000
SKIPS_DEVICE == 3
SKIPS_ACTIVE == 3
SKIPS_INACTIVE == 2
SKIPS_SWING_MODE == 2
STEP_SIZE == 10

IR_DATA_ACTIVE == "IR_DATA_ACTIVE"
IR_DATA_ROTATION_SPEED_UP == "IR_DATA_ROTATION_SPEED_UP"
IR_DATA_ROTATION_SPEED_DOWN == "IR_DATA_ROTATION_SPEED_DOWN"
IR_DATA_POWER == "IR_DATA_POWER"
IR_DATA_SWING_MODE == "IR_DATA_SWING_MODE"
IR_DATA_SPEED_INCREASE == "IR_DATA_SPEED_INCREASE"
IR_DATA_SPEED_DECREASE == "IR_DATA_SPEED_DECREASE"

\* hap.Characteristic.Active and hap.Characteristic.SwingMode
INACTIVE == 0
ACTIVE == 1
SWING_DISABLED == 0
SWING_ENABLED == 1

\* hap.Characteristic.CurrentFanState
IDLE == 1
BLOWING_AIR == 2

\* the divisor of line 366 and the upper limit of line 377
SpeedDivisor == 10
MaxSpeedStep == 10

DEVICE_PING_FAILED == "Device ping failed"
FAN_STATE_OFF == "Fan state is off"
SPEED_NOT_SUPPORTED == "Speed value not supported"

----------------------------------------------------------------------------
(* Inputs *)

Designs == {"queue", "priority", "loop"}

\* MACs of the devices that answer a discovery, as line 277 formats them
DiscoveredMacs == {"AA:BB"}

\* the same with a second device on the network
AnsweringMacs == {"AA:BB", "CC:DD"}

\* accessoryConfig.macAddress: left out of the configuration, or given in
\* lower case
ConfiguredMacs == {"undefined", "aa:bb"}

\* values the control surface writes to Active and SwingMode
ToggleValues == {0, 1}

\* values the control surface writes to RotationSpeed (queue design, 0..100)
SpeedValues == {0, 20, 100}

DefaultDeviceState ==
    [airDirection |-> "STRAIGHT", isSwinging |-> FALSE, power |-> "ON", speed |-> 1]

\* records an earlier run may have left in the store
StoredDeviceStates ==
    {[airDirection |-> "STRAIGHT", isSwinging |-> FALSE, power |-> "OFF", speed |-> 10]}

\* values the control surface writes to RotationSpeed (priority and loop
\* designs, minStep 10)
TargetSpeedValues == {0, 20, 70}

DefaultCharacteristics ==
    [targetActive |-> INACTIVE, currentActive |-> INACTIVE,
     targetRotationSpeed |-> ROTATION_SPEED_STEP_SIZE,
     currentRotationSpeed |-> ROTATION_SPEED_STEP_SIZE,
     targetSwingMode |-> SWING_DISABLED, currentSwingMode |-> SWING_DISABLED]

StoredCharacteristics ==
    {[targetActive |-> ACTIVE, currentActive |-> ACTIVE,
      targetRotationSpeed |-> 20, currentRotationSpeed |-> 20,
      targetSwingMode |-> SWING_ENABLED, currentSwingMode |-> SWING_ENABLED]}

DefaultSkips == [updateCurrentActive |-> 0, updateCurrentSwingMode |-> 0, devicePingFail |-> 0]

----------------------------------------------------------------------------
(* Observation *)

\* op and value: the step and its input; callback: what the step passed to
\* characteristicSetCallback ("none": not called, "pending": left to the
\* completion poll, "ok": called without error, else the error's message);
\* sent: the signal handed to device.sendData; enq: commands enqueued;
\* report: the value given to updateCharacteristic (-1: not called);
\* probe: the answer of the ping the step handled; log: messages logged;
\* attribute and got: the characteristic a get handler was asked for and the
\* value it passed on (<< >>: none); item: the stored item a startup load
\* read; snapshot: the in-memory state the previous run ended with; mac: the
\* formatted MAC of the device a deviceReady event announced
Quiet == [op |-> "none", value |-> 0, callback |-> "none", sent |-> "none",
          enq |-> 0, report |-> -1, probe |-> "none", log |-> {},
          attribute |-> "none", got |-> << >>, item |-> [status |-> "none", text |-> << >>],
          snapshot |-> << >>, mac |-> "none"]

ProbeAnswer(pingResponse) == IF pingResponse THEN "alive" ELSE "dead"

Did(op, value) == [Quiet EXCEPT !.op = op, !.value = value]

----------------------------------------------------------------------------
(* Queue design: pure functions *)

\* the mapping with its two values exchanged
powerHapInverted(power) == IF power = "OFF" THEN 1 ELSE 0

powerHapMapping(power) == IF power = "OFF" THEN 0 ELSE 1

\* typeof partialState[key] === "number": speed is DeviceState's numeric field
IsNumberField(key) == key = "speed"

processStateChange(partialState, state) ==
    [key \in DOMAIN state |->
        IF key \in DOMAIN partialState
        THEN IF IsNumberField(key)
             THEN state[key] + partialState[key]
             ELSE partialState[key]
        ELSE state[key]]

RECURSIVE ApplyQueue(_, _)
ApplyQueue(queue, state) ==
    IF queue = << >> THEN state
    ELSE ApplyQueue(Tail(queue), processStateChange(Head(queue).stateChange, state))

\* the lookahead without the queue: the stale confirmed state
emulateStaleState == deviceState

\* the deltas applied newest first
emulateNewestFirst ==
    ApplyQueue([i \in 1..Len(commandQueue) |-> commandQueue[Len(commandQueue) + 1 - i]],
               deviceState)

emulateCompletedState == ApplyQueue(commandQueue, deviceState)

\* the lookahead run on this.deviceState itself, without the copy
deviceStateAliased == ApplyQueue(commandQueue, deviceState)

\* this._deviceState once emulateCompletedState has returned: line 128 copies
\* it ({...this.deviceState}, all fields primitives), so the lookahead's
\* processStateChange calls leave it as it was
deviceStateAfterEmulate == deviceState

\* Math.ceil(n / d) for d > 0
CeilDiv(n, d) == -((-n) \div d)

\* Math.ceil(Number(characteristicValue) / 10 + 0.01)
DesiredSpeed(characteristicValue) ==
    CeilDiv(characteristicValue * SpeedDivisor + 1, SpeedDivisor * SpeedDivisor)

Abs(x) == IF x < 0 THEN -x ELSE x

\* uuidv4(): an id no queued command and no running poll holds.  Ids are only
\* ever compared with ids in the queue, so the least free one stands for it.
UsedIds(queue, polls) == {queue[i].id : i \in 1..Len(queue)} \cup polls

FreshId(queue, polls) ==
    CHOOSE n \in 0..(Len(queue) + Cardinality(polls)) :
        /\ n \notin UsedIds(queue, polls)
        /\ \A m \in 0..(n - 1) : m \in UsedIds(queue, polls)

\* the push without the check of this.alive
pushUnchecked(queue, polls, command) ==
    Append(queue, [irData |-> command.irData,
                   stateChange |-> command.stateChange,
                   id |-> FreshId(queue, polls)])

\* the queue after pushToQueue(command): unchanged when not alive
pushToQueue(queue, polls, command) ==
    IF ~alive THEN queue
    ELSE Append(queue, [irData |-> command.irData,
                        stateChange |-> command.stateChange,
                        id |-> FreshId(queue, polls)])

\* the poll wired to the first command the write pushed, not the last
pollsOnFirstPushed(queue, polls, command) ==
    IF ~alive THEN polls ELSE polls \cup {FreshId(commandQueue, polls)}

\* the polls after pushToQueue(command, characteristicSetCallback)
pollsAfterPush(queue, polls, command) ==
    IF ~alive THEN polls ELSE polls \cup {FreshId(queue, polls)}

\* what pushToQueue(command, characteristicSetCallback) calls back at once
callbackOfPush == IF ~alive THEN DEVICE_PING_FAILED ELSE "pending"

RECURSIVE pushTimes(_, _, _, _)
pushTimes(n, queue, polls, command) ==
    IF n <= 0 THEN queue
    ELSE pushTimes(n - 1, pushToQueue(queue, polls, command), polls, command)

----------------------------------------------------------------------------
(* Persistence: node-persist setItem / getItem under accessoryConfig.name *)

\* the fields of DeviceState (lines 21-26) and of fanV2Characteristics, in the
\* order the object literals of the constructors create them
DeviceStateKeys == <<"airDirection", "isSwinging", "power", "speed">>
CharacteristicKeys == <<"targetActive", "currentActive", "targetRotationSpeed",
                        "currentRotationSpeed", "targetSwingMode", "currentSwingMode">>

\* the JSON type of a field's value
JsonType(key) ==
    IF key = "isSwinging" THEN "boolean"
    ELSE IF key \in {"airDirection", "power"} THEN "string"
    ELSE "number"

\* the numbers whose decimal text JSON.parse is asked to read back
JsonNumbers == -128..127

\* JSON.stringify of one field: its key, its type and the text of its value
JsonField(key, value) ==
    <<key, JsonType(key),
      IF JsonType(key) = "boolean" THEN (IF value THEN "true" ELSE "false")
      ELSE IF JsonType(key) = "number" THEN ToString(value)
      ELSE value>>

\* JSON.stringify(obj): the fields in insertion order
stringify(obj, keys) == [i \in 1..Len(keys) |-> JsonField(keys[i], obj[keys[i]])]

\* JSON.parse of one field's text
JsonValue(field) ==
    IF field[2] = "boolean" THEN field[3] = "true"
    ELSE IF field[2] = "number" THEN CHOOSE n \in JsonNumbers : ToString(n) = field[3]
    ELSE field[3]

\* JSON.parse(text): an object with exactly the fields the text holds
parse(text) ==
    [key \in {text[i][1] : i \in 1..Len(text)} |->
        JsonValue(text[CHOOSE i \in 1..Len(text) : text[i][1] = key])]

\* the store without an item, and with one that does not parse
AbsentItem == [status |-> "absent", text |-> << >>]
MalformedItem == [status |-> "malformed", text |-> << >>]

\* the write dropped: the store is left without an item
itemDropped(obj, keys) == AbsentItem

\* localStorage.setItem(name, obj): the item it leaves
setItem(obj, keys) == [status |-> "ok", text |-> stringify(obj, keys)]

\* localStorage.getItem(name) under forgiveParseErrors: << >> stands for
\* undefined
getItem(item) == IF item.status = "ok" THEN <<parse(item.text)>> ELSE << >>

\* the stored object dropped: always the defaults
ignoreStored(got, current) == current

\* getItem(name) || current (lines 315, 732; part_000 422)
loadedState(got, current) == IF got = << >> THEN current ELSE got[1]

----------------------------------------------------------------------------
(* Startup *)

\* the items the store may hold when the process starts
StoredItems(d) ==
    {AbsentItem, MalformedItem} \cup
    (IF d = "queue"
     THEN {setItem(state, DeviceStateKeys) : state \in StoredDeviceStates}
     ELSE {setItem(c, CharacteristicKeys) : c \in StoredCharacteristics})

\* updateCachedState (313-317): the state it leaves in memory, and the item the
\* deviceState setter (116-121) then writes
updateCachedState(item) == loadedState(getItem(item), DefaultDeviceState)

\* initFanV2Characteristics (730-739), initCharacteristics (part_000 421-429)
initFanV2Characteristics(item) == loadedState(getItem(item), DefaultCharacteristics)

\* the item in the store once startup has loaded it
storageAfterLoad(d, item) ==
    IF d = "queue" THEN setItem(updateCachedState(item), DeviceStateKeys) ELSE item

\* what a startup load shows: the item it read and, after a restart, the state
\* the previous run held in memory
Loaded(item, snapshot) ==
    [Quiet EXCEPT !.op = "load", !.item = item, !.snapshot = snapshot]

InitQueue(item) ==
    /\ deviceState = updateCachedState(item)
    /\ commandQueue = << >>
    /\ devicePingFail = 0
    /\ inflight = << >>
    /\ waiters = {}

\* the queue design's fields, untouched by the other designs
QueueUnused ==
    /\ deviceState = DefaultDeviceState
    /\ commandQueue = << >>
    /\ devicePingFail = 0
    /\ inflight = << >>
    /\ waiters = {}

InitTarget(item) ==
    /\ fanV2Characteristics = initFanV2Characteristics(item)
    /\ skips = DefaultSkips
    /\ persisting = 0

\* the other designs' fields, untouched by the queue design
TargetUnused ==
    /\ fanV2Characteristics = DefaultCharacteristics
    /\ skips = DefaultSkips
    /\ persisting = 0

\* the state after construction under a configuration with the given
\* macAddress
InitConfigured(d, mac) ==
    /\ design = d
    /\ macAddress = mac
    /\ device = "null"
    /\ discovering = FALSE
    /\ alive = FALSE
    /\ probing = 0
    /\ \E item \in StoredItems(d) :
        /\ IF d = "queue" THEN InitQueue(item) /\ TargetUnused
                          ELSE QueueUnused /\ InitTarget(item)
        /\ storage = storageAfterLoad(d, item)
        /\ last = Loaded(item, << >>)

\* no macAddress in the configuration
InitDesign(d) == InitConfigured(d, "undefined")

Init == \E d \in Designs : InitDesign(d)

\* a callback let in between a tick's transmission and its continuation
anyMoment == TRUE

\* handlers and timers are macrotasks: none runs while a tick's continuation
\* sits in the microtask queue
Idle == inflight = << >>

\* the process ends and is started again: the constructor runs, then the
\* load reads what the previous run left in the store.  The configuration is
\* one without macAddress, which the loop design's constructor copies to
\* this.mac again
Restart ==
    /\ device' = "null"
    /\ discovering' = FALSE
    /\ alive' = FALSE
    /\ commandQueue' = << >>
    /\ devicePingFail' = 0
    /\ inflight' = << >>
    /\ waiters' = {}
    /\ skips' = DefaultSkips
    /\ probing' = 0
    /\ persisting' = 0
    /\ IF design = "queue"
       THEN /\ deviceState' = updateCachedState(storage)
            /\ fanV2Characteristics' = DefaultCharacteristics
            /\ last' = Loaded(storage, <<deviceState>>)
       ELSE /\ deviceState' = DefaultDeviceState
            /\ fanV2Characteristics' = initFanV2Characteristics(storage)
            /\ last' = Loaded(storage, <<fanV2Characteristics>>)
    /\ storage' = storageAfterLoad(design, storage)
    /\ macAddress' = IF design = "loop" THEN "undefined" ELSE macAddress
    /\ UNCHANGED design

----------------------------------------------------------------------------
(* Device binding *)

\* the characters of the MAC strings of the model
Characters(mac) ==
    IF mac = "aa:bb" THEN <<"a", "a", ":", "b", "b">>
    ELSE IF mac = "AA:BB" THEN <<"A", "A", ":", "B", "B">>
    ELSE IF mac = "CC:DD" THEN <<"C", "C", ":", "D", "D">>
    ELSE << >>

MacStrings == {"aa:bb", "AA:BB", "CC:DD"}

\* String.prototype.toUpperCase on one character
UpperCaseCharacter(c) ==
    IF c = "a" THEN "A" ELSE IF c = "b" THEN "B" ELSE IF c = "c" THEN "C"
    ELSE IF c = "d" THEN "D" ELSE c

\* String.prototype.toUpperCase
ToUpperCase(mac) ==
    CHOOSE s \in MacStrings :
        Characters(s) = [i \in 1..Len(Characters(mac)) |-> UpperCaseCharacter(Characters(mac)[i])]

\* the comparison without toUpperCase: the configured string as it is
sameString(mac) == mac

\* accessoryConfig.macAddress.toUpperCase()
configuredMacAddress(mac) == ToUpperCase(mac)

\* this.device == null && (macAddress == undefined || ... == macAddress);
\* part_000 376 has !this.mac for the test of absence
canBind(mac) ==
    /\ device = "null"
    /\ (macAddress = "undefined" \/ configuredMacAddress(macAddress) = mac)

\* the deviceReady handler; the loop design also keeps the MAC it bound
\* (part_000 378)
DeviceReady(mac) ==
    /\ Idle
    /\ discovering
    /\ device' = IF canBind(mac) THEN mac ELSE device
    /\ macAddress' = IF design = "loop" /\ canBind(mac) THEN mac ELSE macAddress
    /\ last' = [Did("deviceReady", 0) EXCEPT !.mac = mac]
    /\ UNCHANGED <<design, discovering, alive, queueVars, targetVars, probing, storage>>

----------------------------------------------------------------------------
(* Queue design: the 600 ms command interval *)

\* pop() in place of shift(): the newest command
popped(queue) == queue[Len(queue)]

\* this.commandQueue.shift(): the command it returns, the queue it leaves
shifted(queue) == Head(queue)

\* the head read but left in the queue
queueKept(queue) == queue

\* the queue cleared when its head is taken
queueCleared(queue) == << >>

afterShift(queue) == Tail(queue)

\* the tick shifting and transmitting without testing this.alive
QueueTickNotAlive ==
    /\ design = "queue"
    /\ Idle
    /\ IF device # "null" /\ commandQueue # << >>
       THEN /\ inflight' = <<shifted(commandQueue)>>
            /\ commandQueue' = afterShift(commandQueue)
            /\ last' = [Did("tick", 0) EXCEPT !.sent = shifted(commandQueue).irData]
       ELSE /\ UNCHANGED <<inflight, commandQueue>>
            /\ last' = Did("tick", 0)
    /\ UNCHANGED <<bindVars, alive, deviceState, devicePingFail, waiters, targetVars, probing,
                   storage>>

\* up to the await of line 140: shift the head and transmit it
QueueTick ==
    /\ design = "queue"
    /\ Idle
    /\ IF device # "null" /\ alive /\ commandQueue # << >>
       THEN /\ inflight' = <<shifted(commandQueue)>>
            /\ commandQueue' = afterShift(commandQueue)
            /\ last' = [Did("tick", 0) EXCEPT !.sent = shifted(commandQueue).irData]
       ELSE /\ UNCHANGED <<inflight, commandQueue>>
            /\ last' = Did("tick", 0)
    /\ UNCHANGED <<bindVars, alive, deviceState, devicePingFail, waiters, targetVars, probing,
                   storage>>

\* after the await: apply the delta through the deviceState setter
QueueTickApply ==
    /\ design = "queue"
    /\ inflight # << >>
    /\ deviceState' = processStateChange(inflight[1].stateChange, deviceState)
    /\ storage' = setItem(deviceState', DeviceStateKeys)
    /\ inflight' = << >>
    /\ last' = Did("tickApply", 0)
    /\ UNCHANGED <<bindVars, alive, commandQueue, devicePingFail, waiters, targetVars, probing>>

----------------------------------------------------------------------------
(* Queue design: the 2000 ms ping interval *)

\* lines 170-176
QueuePingFailSkip(fail) == IF fail > 0 THEN fail - 1 ELSE fail

\* the message of lines 173-175, 720-722
StabilizedLog(before, after) ==
    IF before > 0 /\ after = 0 THEN {"DEVICE_PING_STABILIZED"} ELSE {}

\* the message of lines 296-298, 701-703
FailedLog(pingResponse, fail) ==
    IF ~pingResponse /\ fail = 0 THEN {"DEVICE_PING_FAILED"} ELSE {}

\* the interval fires: with a device the probe starts, without one discovery
\* is asked for and the counter is decremented in the same callback
QueuePingStart ==
    /\ design = "queue"
    /\ Idle
    /\ IF device # "null"
       THEN /\ probing < MaxInFlight
            /\ probing' = probing + 1
            /\ last' = Did("pingStart", 0)
            /\ UNCHANGED <<discovering, devicePingFail>>
       ELSE /\ discovering' = TRUE
            /\ devicePingFail' = QueuePingFailSkip(devicePingFail)
            /\ last' = [Did("discover", 0) EXCEPT
                          !.log = StabilizedLog(devicePingFail, devicePingFail')]
            /\ UNCHANGED probing
    /\ UNCHANGED <<design, macAddress, device, alive, deviceState, commandQueue,
                   inflight, waiters, targetVars, storage>>

\* line 305 left out: alive as soon as a probe answers
aliveOnAnswer(pingResponse, fail) == pingResponse

\* this.alive after pingDevice (290-306) saw pingResponse, fail the counter
\* it found
aliveAfterProbe(pingResponse, fail) == pingResponse /\ fail = 0

\* pingDevice after its await (lines 291-306), then lines 170-176
QueuePingDevice(pingResponse) ==
    /\ design = "queue"
    /\ Idle
    /\ probing > 0
    /\ probing' = probing - 1
    /\ LET failed == IF ~pingResponse THEN SKIPS_DEVICE_PING_FAIL ELSE devicePingFail
       IN  /\ alive' = aliveAfterProbe(pingResponse, devicePingFail)
           /\ devicePingFail' = QueuePingFailSkip(failed)
           /\ last' = [Did("ping", 0) EXCEPT
                         !.probe = ProbeAnswer(pingResponse),
                         !.log = FailedLog(pingResponse, devicePingFail)
                                 \cup StabilizedLog(failed, devicePingFail')]
    /\ UNCHANGED <<bindVars, deviceState, commandQueue, inflight, waiters, targetVars, storage>>

----------------------------------------------------------------------------
(* Queue design: the control surface *)

\* the check left out
FanIsOffIgnored(state) == FALSE

\* state.power === "OFF" (lines 349, 372)
FanIsOff(state) == state.power = "OFF"

\* the power command carrying ON whatever was written
powerCommandOn(characteristicValue) ==
    [irData |-> IR_DATA_POWER, stateChange |-> [power |-> "ON"]]

PowerCommand(characteristicValue) ==
    [irData |-> IR_DATA_POWER,
     stateChange |-> [power |-> IF characteristicValue = 0 THEN "OFF" ELSE "ON"]]

SwingCommand(characteristicValue) ==
    [irData |-> IR_DATA_SWING_MODE,
     stateChange |-> [isSwinging |-> characteristicValue = 1]]

SpeedCommand(decrease) ==
    [irData |-> IF decrease THEN IR_DATA_SPEED_DECREASE ELSE IR_DATA_SPEED_INCREASE,
     stateChange |-> [speed |-> IF decrease THEN -1 ELSE 1]]

\* one pushToQueue(command, characteristicSetCallback)
PushWithCallback(op, characteristicValue, queue, command) ==
    /\ Len(queue) < MaxQueue
    /\ alive => Cardinality(waiters) < MaxPolls
    /\ commandQueue' = pushToQueue(queue, waiters, command)
    /\ waiters' = pollsAfterPush(queue, waiters, command)
    /\ last' = [Did(op, characteristicValue) EXCEPT
                  !.callback = callbackOfPush,
                  !.enq = Len(commandQueue') - Len(commandQueue)]

Rejected(op, characteristicValue, error) ==
    /\ last' = [Did(op, characteristicValue) EXCEPT !.callback = error]
    /\ UNCHANGED <<commandQueue, waiters>>

setPower(characteristicValue) ==
    /\ design = "queue"
    /\ Idle
    /\ LET state == emulateCompletedState
       IN  IF characteristicValue # powerHapMapping(state.power)
           THEN PushWithCallback("setPower", characteristicValue, commandQueue,
                                 PowerCommand(characteristicValue))
           ELSE /\ last' = Did("setPower", characteristicValue)
                /\ UNCHANGED <<commandQueue, waiters>>
    /\ deviceState' = deviceStateAfterEmulate
    /\ UNCHANGED <<bindVars, alive, devicePingFail, inflight, targetVars, probing, storage>>

setSwingMode(characteristicValue) ==
    /\ design = "queue"
    /\ Idle
    /\ LET state == emulateCompletedState
       IN  IF FanIsOff(state)
           THEN Rejected("setSwingMode", characteristicValue, FAN_STATE_OFF)
           ELSE IF characteristicValue # (IF state.isSwinging THEN 1 ELSE 0)
           THEN PushWithCallback("setSwingMode", characteristicValue, commandQueue,
                                 SwingCommand(characteristicValue))
           ELSE /\ last' = Did("setSwingMode", characteristicValue)
                /\ UNCHANGED <<commandQueue, waiters>>
    /\ deviceState' = deviceStateAfterEmulate
    /\ UNCHANGED <<bindVars, alive, devicePingFail, inflight, targetVars, probing, storage>>

setCurrentSpeed(characteristicValue) ==
    /\ design = "queue"
    /\ Idle
    /\ LET state == emulateCompletedState
           desiredSpeed == DesiredSpeed(characteristicValue)
           decrease == desiredSpeed < state.speed
           diff == Abs(desiredSpeed - state.speed)
       IN  IF desiredSpeed = state.speed
           THEN /\ last' = Did("setCurrentSpeed", characteristicValue)
                /\ UNCHANGED <<commandQueue, waiters>>
           ELSE IF FanIsOff(state)
           THEN Rejected("setCurrentSpeed", characteristicValue, FAN_STATE_OFF)
           ELSE IF state.speed < 0 \/ state.speed > MaxSpeedStep
           THEN Rejected("setCurrentSpeed", characteristicValue, SPEED_NOT_SUPPORTED)
           ELSE /\ Len(commandQueue) + diff <= MaxQueue
                /\ PushWithCallback("setCurrentSpeed", characteristicValue,
                                    pushTimes(diff - 1, commandQueue, waiters,
                                              SpeedCommand(decrease)),
                                    SpeedCommand(decrease))
    /\ deviceState' = deviceStateAfterEmulate
    /\ UNCHANGED <<bindVars, alive, devicePingFail, inflight, targetVars, probing, storage>>

\* the characteristics initServices (233-252) gives a get handler
QueueGetters == {"Active", "CurrentFanState", "SwingMode", "RotationSpeed"}

\* the getter initServices passes for a characteristic
getter(attribute, state) ==
    IF attribute = "Active" THEN powerHapMapping(state.power)
    ELSE IF attribute = "CurrentFanState"
    THEN (IF state.power = "ON" THEN BLOWING_AIR ELSE IDLE)
    ELSE IF attribute = "SwingMode" THEN state.isSwinging
    ELSE state.speed

\* characteristicGetCallback(this.alive ? null : new Error(...), value)
Answered(attribute, error, value) ==
    [Did("get", 0) EXCEPT !.attribute = attribute, !.callback = error, !.got = <<value>>]

\* the callback's first argument (lines 326, 747, 813, 876)
getError == IF alive THEN "ok" ELSE DEVICE_PING_FAILED

getCharacteristicProperty(attribute) ==
    /\ design = "queue"
    /\ Idle
    /\ last' = Answered(attribute, getError, getter(attribute, deviceState))
    /\ UNCHANGED stateVars

\* the 100 ms completion poll of lines 217-222
CompletionPoll(id) ==
    /\ design = "queue"
    /\ Idle
    /\ id \in waiters
    /\ IF id \notin {commandQueue[i].id : i \in 1..Len(commandQueue)}
       THEN /\ waiters' = waiters \ {id}
            /\ last' = [Did("poll", id) EXCEPT !.callback = "ok"]
       ELSE /\ UNCHANGED waiters
            /\ last' = Did("poll", id)
    /\ UNCHANGED <<bindVars, alive, deviceState, commandQueue, devicePingFail,
                   inflight, targetVars, probing, storage>>

----------------------------------------------------------------------------

(* Priority design: the scheduler of accessory.ts 597-620 *)

canUpdateCurrentActive(c, s) ==
    /\ c.currentActive # c.targetActive
    /\ s.updateCurrentActive = 0
    /\ s.updateCurrentSwingMode = 0

\* the power signal sent and current Active left as it was
currentActiveKept(c) == c

updateCurrentActive(c) == [c EXCEPT !.currentActive = c.targetActive]

\* no skips set after a power command
skipsAfterActiveNoCooldown(c, s) == s

\* the skips after updateCurrentActive, c the characteristics it leaves
skipsAfterActive(c, s) ==
    IF c.currentActive = ACTIVE
    THEN [s EXCEPT !.updateCurrentActive = SKIPS_UPDATE_CURRENT_ACTIVE_ACTIVE]
    ELSE IF c.currentActive = INACTIVE
    THEN [s EXCEPT !.updateCurrentActive = SKIPS_UPDATE_CURRENT_ACTIVE_INACTIVE]
    ELSE s

canUpdateCurrentRotationSpeed(c, s) ==
    /\ c.currentRotationSpeed # c.targetRotationSpeed
    /\ c.currentActive = ACTIVE
    /\ s.updateCurrentActive = 0
    /\ s.updateCurrentSwingMode = 0

\* the current speed set to the target in one command
rotationSpeedJumps(c) == [c EXCEPT !.currentRotationSpeed = c.targetRotationSpeed]

\* every speed command an increase
rotationSpeedAlwaysUp(c) == [c EXCEPT !.currentRotationSpeed = @ + ROTATION_SPEED_STEP_SIZE]

updateCurrentRotationSpeed(c) ==
    IF c.currentRotationSpeed < c.targetRotationSpeed
    THEN [c EXCEPT !.currentRotationSpeed = @ + ROTATION_SPEED_STEP_SIZE]
    ELSE IF c.currentRotationSpeed > c.targetRotationSpeed
    THEN [c EXCEPT !.currentRotationSpeed = @ - ROTATION_SPEED_STEP_SIZE]
    ELSE c

rotationSpeedSignal(c) ==
    IF c.currentRotationSpeed < c.targetRotationSpeed THEN IR_DATA_ROTATION_SPEED_UP
    ELSE IF c.currentRotationSpeed > c.targetRotationSpeed THEN IR_DATA_ROTATION_SPEED_DOWN
    ELSE "none"

\* the check of current Active left out
canUpdateCurrentSwingModeWhileOff(c, s) ==
    /\ c.currentSwingMode # c.targetSwingMode
    /\ s.updateCurrentActive = 0

canUpdateCurrentSwingMode(c, s) ==
    /\ c.currentSwingMode # c.targetSwingMode
    /\ c.currentActive = ACTIVE
    /\ s.updateCurrentActive = 0

updateCurrentSwingMode(c) == [c EXCEPT !.currentSwingMode = c.targetSwingMode]

\* the swing toggle starting the active cooldown instead of its own
skipsAfterSwingModeOnActive(s) == [s EXCEPT !.updateCurrentActive = SKIPS_UPDATE_CURRENT_SWING_MODE]

skipsAfterSwingMode(s) == [s EXCEPT !.updateCurrentSwingMode = SKIPS_UPDATE_CURRENT_SWING_MODE]

\* the decrement left out
activeSkipKept(s) == s

doUpdateCurrentActiveSkip(s) ==
    IF s.updateCurrentActive > 0 THEN [s EXCEPT !.updateCurrentActive = @ - 1] ELSE s

\* the swing cooldown going down by two
swingSkipTwice(s) ==
    IF s.updateCurrentSwingMode > 0 THEN [s EXCEPT !.updateCurrentSwingMode = @ - 2] ELSE s

doUpdateCurrentSwingModeSkip(s) ==
    IF s.updateCurrentSwingMode > 0 THEN [s EXCEPT !.updateCurrentSwingMode = @ - 1] ELSE s

doDevicePingFailSkip(s) ==
    IF s.devicePingFail > 0 THEN [s EXCEPT !.devicePingFail = @ - 1] ELSE s

\* lines 615-617, and the same three calls of part_000 318-320
doSkips(s) == doDevicePingFailSkip(doUpdateCurrentSwingModeSkip(doUpdateCurrentActiveSkip(s)))

\* the skips after pingDevice (697-710) saw pingResponse
skipsAfterPing(pingResponse, s) ==
    IF ~pingResponse THEN [s EXCEPT !.devicePingFail = SKIPS_DEVICE_PING_FAIL] ELSE s

\* line 709 left out: alive as soon as one probe succeeds
aliveWithoutHysteresis(pingResponse, s) == pingResponse

\* this.alive after pingDevice saw pingResponse
aliveAfterPing(pingResponse, s) == pingResponse /\ s.devicePingFail = 0

\* the tick going on to the probe without testing this.device
TickStartUnbound ==
    /\ design \in {"priority", "loop"}
    /\ probing + persisting < MaxInFlight
    /\ probing' = probing + 1
    /\ last' = Did("tickStart", 0)
    /\ UNCHANGED <<design, macAddress, device, discovering, alive, queueVars, targetVars,
                   storage>>

\* the interval fires: discovery without a device, else the probe starts
TickStart ==
    /\ design \in {"priority", "loop"}
    /\ IF device = "null"
       THEN /\ discovering' = TRUE
            /\ last' = Did("discover", 0)
            /\ UNCHANGED probing
       ELSE /\ probing + persisting < MaxInFlight
            /\ probing' = probing + 1
            /\ last' = Did("tickStart", 0)
            /\ UNCHANGED discovering
    /\ UNCHANGED <<design, macAddress, device, alive, queueVars, targetVars, storage>>

\* the interval fires while earlier callbacks still await their probe or
\* their setItem: setInterval does not wait for them
TickStartOverlapping ==
    /\ design = "priority"
    /\ IF device = "null"
       THEN /\ discovering' = TRUE
            /\ last' = Did("discover", 0)
            /\ UNCHANGED probing
       ELSE /\ probing + persisting < MaxOverlap
            /\ probing' = probing + 1
            /\ last' = Did("tickStart", 0)
            /\ UNCHANGED discovering
    /\ UNCHANGED <<design, macAddress, device, alive, queueVars, targetVars, storage>>

\* what a tick services, given the characteristics and skips it sees
PriorityService(c, s) ==
    IF canUpdateCurrentActive(c, s) THEN "active"
    ELSE IF canUpdateCurrentRotationSpeed(c, s) THEN "speed"
    ELSE IF canUpdateCurrentSwingMode(c, s) THEN "swing"
    ELSE "none"

\* one tick from the probe's answer to its next await (or its end): service
\* is the class it chose, c the characteristics, pinged the skips the probe
\* left, afterActive and afterSwing the skips an update would leave
Actuate(pingResponse, service, c, pinged, afterActive, afterSwing) ==
    /\ probing > 0
    /\ probing' = probing - 1
    /\ IF service = "active"
       THEN /\ fanV2Characteristics' = updateCurrentActive(c)
            /\ skips' = afterActive
            /\ last' = [Did("tick", 0) EXCEPT !.sent = IR_DATA_ACTIVE, !.probe = "alive"]
            /\ persisting' = persisting + 1
       ELSE IF service = "speed"
       THEN /\ fanV2Characteristics' = updateCurrentRotationSpeed(c)
            /\ skips' = pinged
            /\ last' = [Did("tick", 0) EXCEPT !.sent = rotationSpeedSignal(c), !.probe = "alive"]
            /\ persisting' = persisting + 1
       ELSE IF service = "swing"
       THEN /\ fanV2Characteristics' = updateCurrentSwingMode(c)
            /\ skips' = afterSwing
            /\ last' = [Did("tick", 0) EXCEPT !.sent = IR_DATA_SWING_MODE, !.probe = "alive"]
            /\ persisting' = persisting + 1
       ELSE /\ skips' = doSkips(pinged)
            /\ last' = [Did("tick", 0) EXCEPT
                          !.probe = ProbeAnswer(pingResponse),
                          !.log = FailedLog(pingResponse, skips.devicePingFail)
                                  \cup StabilizedLog(pinged.devicePingFail,
                                                     skips'.devicePingFail)]
            /\ UNCHANGED <<fanV2Characteristics, persisting>>
    /\ storage' = IF service = "none" THEN storage
                  ELSE setItem(fanV2Characteristics', CharacteristicKeys)

PriorityTick(pingResponse) ==
    /\ design = "priority"
    /\ LET pinged == skipsAfterPing(pingResponse, skips)
           c == fanV2Characteristics
       IN  /\ alive' = aliveAfterPing(pingResponse, skips)
           /\ Actuate(pingResponse,
                      IF alive' THEN PriorityService(c, pinged) ELSE "none",
                      c, pinged,
                      skipsAfterActive(updateCurrentActive(c), pinged),
                      skipsAfterSwingMode(pinged))
    /\ UNCHANGED <<bindVars, queueVars>>

\* the tick after its await of localStorage.setItem: the three decrements
TickPersisted ==
    /\ design \in {"priority", "loop"}
    /\ persisting > 0
    /\ persisting' = persisting - 1
    /\ skips' = doSkips(skips)
    /\ last' = [Did("tickPersisted", 0) EXCEPT
                  !.log = StabilizedLog(skips.devicePingFail, skips'.devicePingFail)]
    /\ UNCHANGED <<bindVars, alive, queueVars, fanV2Characteristics, probing, storage>>

----------------------------------------------------------------------------
(* Priority design: the control surface *)

\* a target write of the priority design: refused when not alive
TargetWrite(op, characteristicValue, field, newValue, report) ==
    /\ design = "priority"
    /\ IF alive
       THEN /\ fanV2Characteristics' = [fanV2Characteristics EXCEPT ![field] = newValue]
            /\ storage' = IF newValue # fanV2Characteristics[field]
                          THEN setItem(fanV2Characteristics', CharacteristicKeys)
                          ELSE storage
            /\ last' = [Did(op, characteristicValue) EXCEPT
                          !.callback = "ok", !.report = report]
       ELSE /\ last' = [Did(op, characteristicValue) EXCEPT !.callback = DEVICE_PING_FAILED]
            /\ UNCHANGED <<fanV2Characteristics, storage>>
    /\ UNCHANGED <<bindVars, alive, queueVars, skips, persisting, probing>>

\* the three get handlers of the priority design
getTarget(attribute, value) ==
    /\ design = "priority"
    /\ last' = Answered(attribute, getError, value)
    /\ UNCHANGED stateVars

getTargetActive == getTarget("Active", fanV2Characteristics.targetActive)
getTargetRotationSpeed == getTarget("RotationSpeed", fanV2Characteristics.targetRotationSpeed)
getTargetSwingMode == getTarget("SwingMode", fanV2Characteristics.targetSwingMode)

setTargetActive(characteristicValue) ==
    TargetWrite("setTargetActive", characteristicValue, "targetActive",
                characteristicValue, -1)

clampRotationSpeed(characteristicValue) ==
    IF characteristicValue < ROTATION_SPEED_STEP_SIZE
    THEN ROTATION_SPEED_STEP_SIZE ELSE characteristicValue

\* the value updateCharacteristic(RotationSpeed, .) is called with, -1 for no call
reportedRotationSpeed(characteristicValue) ==
    IF characteristicValue < ROTATION_SPEED_STEP_SIZE
    THEN ROTATION_SPEED_STEP_SIZE ELSE -1

setTargetRotationSpeed(characteristicValue) ==
    TargetWrite("setTargetRotationSpeed", characteristicValue, "targetRotationSpeed",
                clampRotationSpeed(characteristicValue),
                reportedRotationSpeed(characteristicValue))

setTargetSwingMode(characteristicValue) ==
    TargetWrite("setTargetSwingMode", characteristicValue, "targetSwingMode",
                characteristicValue, -1)

----------------------------------------------------------------------------
(* Loop design: src/unnamed/part_000 *)

\* the skips after isDeviceConnected saw res.alive
skipsAfterConnected(connected, s) ==
    IF ~connected THEN [s EXCEPT !.devicePingFail = SKIPS_DEVICE] ELSE s

\* what isDeviceConnected returns
isDeviceConnected(connected, s) == connected /\ s.devicePingFail = 0

canUpdateActive(c, s) ==
    /\ c.currentActive # c.targetActive
    /\ s.updateCurrentActive = 0

\* the skips after updateActive, c the characteristics it leaves
skipsAfterUpdateActive(c, s) ==
    [s EXCEPT !.updateCurrentActive = IF c.currentActive # 0 THEN SKIPS_ACTIVE
                                      ELSE SKIPS_INACTIVE,
              !.updateCurrentSwingMode = 0]

canUpdateRotationSpeed(c, s) ==
    /\ c.currentRotationSpeed # c.targetRotationSpeed
    /\ c.currentActive = ACTIVE
    /\ s.updateCurrentActive = 0
    /\ s.updateCurrentSwingMode = 0

canUpdateSwingMode(c, s) ==
    /\ c.currentSwingMode # c.targetSwingMode
    /\ c.currentActive = ACTIVE
    /\ s.updateCurrentActive = 0

skipsAfterUpdateSwingMode(s) == [s EXCEPT !.updateCurrentSwingMode = SKIPS_SWING_MODE]

LoopService(c, s) ==
    IF canUpdateActive(c, s) THEN "active"
    ELSE IF canUpdateRotationSpeed(c, s) THEN "speed"
    ELSE IF canUpdateSwingMode(c, s) THEN "swing"
    ELSE "none"

LoopTick(res) ==
    /\ design = "loop"
    /\ LET pinged == skipsAfterConnected(res, skips)
           c == fanV2Characteristics
       IN  Actuate(res,
                   IF isDeviceConnected(res, skips) THEN LoopService(c, pinged) ELSE "none",
                   c, pinged,
                   skipsAfterUpdateActive(updateCurrentActive(c), pinged),
                   skipsAfterUpdateSwingMode(pinged))
    /\ UNCHANGED <<bindVars, alive, queueVars>>

\* a target write of the loop design: no liveness check
LoopWrite(op, value, field, newValue, report) ==
    /\ design = "loop"
    /\ fanV2Characteristics' = [fanV2Characteristics EXCEPT ![field] = newValue]
    /\ storage' = IF newValue # fanV2Characteristics[field]
                  THEN setItem(fanV2Characteristics', CharacteristicKeys)
                  ELSE storage
    /\ last' = [Did(op, value) EXCEPT !.callback = "ok", !.report = report]
    /\ UNCHANGED <<bindVars, alive, queueVars, skips, persisting, probing>>

\* the three get handlers of the loop design: the promise resolves with the
\* target, whatever isDeviceConnected last returned
LoopGet(attribute, value) ==
    /\ design = "loop"
    /\ last' = Answered(attribute, "ok", value)
    /\ UNCHANGED stateVars

getActive == LoopGet("Active", fanV2Characteristics.targetActive)
getRotationSpeed == LoopGet("RotationSpeed", fanV2Characteristics.targetRotationSpeed)
getSwingMode == LoopGet("SwingMode", fanV2Characteristics.targetSwingMode)

setActive(value) == LoopWrite("setActive", value, "targetActive", value, -1)

setRotationSpeed(value) ==
    LoopWrite("setRotationSpeed", value, "targetRotationSpeed",
              IF value < STEP_SIZE THEN STEP_SIZE ELSE value,
              IF value < STEP_SIZE THEN STEP_SIZE ELSE -1)

LoopSetSwingMode(value) == LoopWrite("setSwingMode", value, "targetSwingMode", value, -1)

----------------------------------------------------------------------------

NextQueue ==
    \/ QueueTick
    \/ QueueTickApply
    \/ QueuePingStart
    \/ \E pingResponse \in BOOLEAN : QueuePingDevice(pingResponse)
    \/ \E v \in ToggleValues : setPower(v)
    \/ \E v \in ToggleValues : setSwingMode(v)
    \/ \E v \in SpeedValues : setCurrentSpeed(v)
    \/ \E id \in waiters : CompletionPoll(id)
    \/ \E attribute \in QueueGetters : getCharacteristicProperty(attribute)

NextPriority ==
    \/ TickStart
    \/ \E pingResponse \in BOOLEAN : PriorityTick(pingResponse)
    \/ TickPersisted
    \/ \E v \in ToggleValues : setTargetActive(v)
    \/ \E v \in TargetSpeedValues : setTargetRotationSpeed(v)
    \/ \E v \in ToggleValues : setTargetSwingMode(v)
    \/ getTargetActive
    \/ getTargetRotationSpeed
    \/ getTargetSwingMode

NextLoop ==
    \/ \E res \in BOOLEAN : LoopTick(res)
    \/ \E v \in ToggleValues : setActive(v)
    \/ \E v \in TargetSpeedValues : setRotationSpeed(v)
    \/ \E v \in ToggleValues : LoopSetSwingMode(v)
    \/ getActive
    \/ getRotationSpeed
    \/ getSwingMode

Next ==
    \/ \E mac \in DiscoveredMacs : DeviceReady(mac)
    \/ NextQueue
    \/ NextPriority
    \/ NextLoop

\* every design
Spec == Init /\ [][Next]_vars

\* the queue design alone
SpecQueue ==
    InitDesign("queue") /\ [][(\E mac \in DiscoveredMacs : DeviceReady(mac)) \/ NextQueue]_vars

\* the designs with target and current characteristics
SpecTarget ==
    /\ InitDesign("priority") \/ InitDesign("loop")
    /\ [][(\E mac \in DiscoveredMacs : DeviceReady(mac)) \/ NextPriority \/ NextLoop]_vars

\* every design, with or without a configured macAddress, two devices
\* answering the discovery
SpecBind ==
    /\ \E d \in Designs : \E mac \in ConfiguredMacs : InitConfigured(d, mac)
    /\ [][(\E mac \in AnsweringMacs : DeviceReady(mac))
            \/ NextQueue \/ NextPriority \/ NextLoop]_vars

\* successive runs of the process over the same store
SpecRestart == Init /\ [][Next \/ Restart]_vars

\* the queue design with its two intervals firing for ever: setInterval
\* keeps scheduling the tick, and the continuation of a tick's await runs
SpecQueueFair == SpecQueue /\ WF_vars(QueueTick) /\ WF_vars(QueueTickApply)

\* the priority design with tick callbacks in flight together
SpecOverlap ==
    /\ InitDesign("priority")
    /\ [][\/ \E mac \in DiscoveredMacs : DeviceReady(mac)
          \/ TickStartOverlapping
          \/ \E pingResponse \in BOOLEAN : PriorityTick(pingResponse)
          \/ TickPersisted
          \/ \E v \in ToggleValues : setTargetActive(v)
          \/ \E v \in TargetSpeedValues : setTargetRotationSpeed(v)
          \/ \E v \in ToggleValues : setTargetSwingMode(v)]_vars

\* the priority design with its interval firing for ever: setInterval keeps
\* scheduling the tick, the probe answers, and the await of setItem returns
SpecPriorityFair ==
    /\ InitDesign("priority")
    /\ [][(\E mac \in DiscoveredMacs : DeviceReady(mac)) \/ NextPriority]_vars
    /\ WF_vars(TickStart)
    /\ WF_vars(\E pingResponse \in BOOLEAN : PriorityTick(pingResponse))
    /\ WF_vars(TickPersisted)

----------------------------------------------------------------------------
(* Definitions the properties share *)

\* the sum of the speed deltas of the queued commands
RECURSIVE QueuedSpeedDelta(_)
QueuedSpeedDelta(queue) ==
    IF queue = << >> THEN 0
    ELSE (IF "speed" \in DOMAIN Head(queue).stateChange
          THEN Head(queue).stateChange.speed ELSE 0) + QueuedSpeedDelta(Tail(queue))

\* the power the newest queued power command leaves, else the given one
RECURSIVE QueuedPower(_, _)
QueuedPower(queue, power) ==
    IF queue = << >> THEN power
    ELSE QueuedPower(Tail(queue),
                     IF "power" \in DOMAIN Head(queue).stateChange
                     THEN Head(queue).stateChange.power ELSE power)

EmulatedPower == QueuedPower(commandQueue, deviceState.power)
EmulatedSpeed == deviceState.speed + QueuedSpeedDelta(commandQueue)

StepRange == 1..MaxSpeedStep

SpeedSignals == {IR_DATA_SPEED_INCREASE, IR_DATA_SPEED_DECREASE,
                 IR_DATA_ROTATION_SPEED_UP, IR_DATA_ROTATION_SPEED_DOWN}
ActuationSignals == SpeedSignals \cup {IR_DATA_SWING_MODE}

ConfirmedPowerOn ==
    IF design = "queue" THEN deviceState.power = "ON"
    ELSE fanV2Characteristics.currentActive = ACTIVE

PingFail == IF design = "queue" THEN devicePingFail ELSE skips.devicePingFail

----------------------------------------------------------------------------
(* C1 *)

\* C1: queue design.  A speed write made while alive and not refused leaves
\* the queue as it was, followed by exactly |desired step - emulated speed|
\* commands, where the emulated speed is the confirmed speed plus every speed
\* delta still queued; each added command carries the unit delta and the
\* signal of the direction of travel.
C1_SpeedWriteEnqueuesDistance ==
    [][\A v \in SpeedValues :
        (/\ last'.op = "setCurrentSpeed"
         /\ last'.value = v
         /\ alive
         /\ last'.callback \in {"pending", "none"})
        => LET travel == DesiredSpeed(v) - EmulatedSpeed
               old == Len(commandQueue)
           IN  /\ Len(commandQueue') = old + Abs(travel)
               /\ SubSeq(commandQueue', 1, old) = commandQueue
               /\ \A i \in (old + 1)..Len(commandQueue') :
                    /\ commandQueue'[i].stateChange =
                          [speed |-> IF travel > 0 THEN 1 ELSE -1]
                    /\ commandQueue'[i].irData =
                          IF travel > 0 THEN IR_DATA_SPEED_INCREASE
                          ELSE IR_DATA_SPEED_DECREASE]_vars

\* a two-step decrease enqueued behind a queued increase: the stale confirmed
\* speed would have asked for one step
C1_Witness ==
    /\ last.op = "setCurrentSpeed"
    /\ last.enq = 2
    /\ Len(commandQueue) = 3
    /\ commandQueue[1].irData = IR_DATA_SPEED_INCREASE
    /\ commandQueue[3].irData = IR_DATA_SPEED_DECREASE

----------------------------------------------------------------------------
(* C2 *)

\* C2: queue design.  Every speed write made while the emulated power is OFF
\* is called back with the DeviceOff error ("Fan state is off") and leaves
\* the queue unchanged, whatever value is written.
C2_SpeedWhileOffRejected ==
    [][(last'.op = "setCurrentSpeed" /\ EmulatedPower = "OFF")
        => (last'.callback = FAN_STATE_OFF /\ commandQueue' = commandQueue)]_vars

----------------------------------------------------------------------------
(* C3 *)

\* C3: queue design.  Every swing write made while the emulated power is OFF
\* is called back in the same step with the DeviceOff error and changes
\* neither the queue, the polls nor the confirmed state, whatever the value.
C3_SwingWhileOffRejected ==
    [][(design = "queue" /\ last'.op = "setSwingMode" /\ EmulatedPower = "OFF")
        => /\ last'.callback = FAN_STATE_OFF
           /\ last'.enq = 0
           /\ commandQueue' = commandQueue
           /\ waiters' = waiters
           /\ deviceState' = deviceState]_vars

\* a swing write refused because of a queued power-off, the confirmed power
\* still being ON
C3_Witness ==
    /\ design = "queue"
    /\ last.op = "setSwingMode"
    /\ last.callback = FAN_STATE_OFF
    /\ deviceState.power = "ON"
    /\ commandQueue # << >>

----------------------------------------------------------------------------
(* C4 *)

\* C4: a speed write below the minimum step that is not refused leaves the
\* target (priority, loop) or the emulated step (queue) at the minimum step,
\* and the clamped value is given to updateCharacteristic.
C4_BelowMinimumClampedAndReported ==
    /\ (/\ last.op = "setTargetRotationSpeed"
        /\ last.value < ROTATION_SPEED_STEP_SIZE
        /\ last.callback = "ok")
       => /\ fanV2Characteristics.targetRotationSpeed = ROTATION_SPEED_STEP_SIZE
          /\ last.report = ROTATION_SPEED_STEP_SIZE
    /\ (/\ last.op = "setRotationSpeed"
        /\ last.value < STEP_SIZE
        /\ last.callback = "ok")
       => /\ fanV2Characteristics.targetRotationSpeed = STEP_SIZE
          /\ last.report = STEP_SIZE
    /\ (/\ last.op = "setCurrentSpeed"
        /\ last.value < SpeedDivisor
        /\ last.callback = "pending")
       => /\ emulateCompletedState.speed = DesiredSpeed(0)
          /\ last.report = DesiredSpeed(0)

----------------------------------------------------------------------------
(* C5 *)

\* C5: queue design.  The confirmed speed and the emulated speed are steps
\* within 1..10 in every reachable state, and a speed write whose desired
\* step is outside that range enqueues nothing.
C5_SpeedWithinStepRange ==
    design = "queue" =>
        /\ deviceState.speed \in StepRange
        /\ emulateCompletedState.speed \in StepRange
        /\ (last.op = "setCurrentSpeed" /\ DesiredSpeed(last.value) \notin StepRange)
           => last.enq = 0

----------------------------------------------------------------------------
(* C6 *)

\* C6: queue design.  A step that transmits removes exactly the head of the
\* queue and transmits that command's signal; the step after it applies that
\* command's delta to the confirmed state and nothing else; every other step
\* leaves the confirmed state alone and only appends to the queue.  Hence
\* commands are transmitted and applied in the order they were enqueued, each
\* once, none lost.
C6_HeadFirstOncePerTick ==
    [][design = "queue" =>
        /\ last'.sent # "none"
           => /\ commandQueue # << >>
              /\ last'.sent = Head(commandQueue).irData
              /\ commandQueue' = Tail(commandQueue)
              /\ inflight = << >>
              /\ inflight' = <<Head(commandQueue)>>
              /\ deviceState' = deviceState
        /\ inflight # << >>
           => /\ last'.sent = "none"
              /\ inflight' = << >>
              /\ commandQueue' = commandQueue
              /\ deviceState' = processStateChange(inflight[1].stateChange, deviceState)
        /\ (last'.sent = "none" /\ inflight = << >>)
           => /\ deviceState' = deviceState
              /\ inflight' = << >>
              /\ Len(commandQueue') >= Len(commandQueue)
              /\ SubSeq(commandQueue', 1, Len(commandQueue)) = commandQueue]_vars

\* a tick holds the head it has just transmitted while a different command
\* is still queued behind it
C6_Witness ==
    /\ design = "queue"
    /\ inflight # << >>
    /\ commandQueue # << >>
    /\ inflight[1].irData # commandQueue[Len(commandQueue)].irData

----------------------------------------------------------------------------
(* C7 *)

\* C7: priority design.  A tick that finds a power change pending (current
\* Active differs from target Active) services no speed and no swing command.
C7_PowerServicedFirst ==
    [][(/\ design \in {"priority", "loop"}
        /\ last'.op = "tick"
        /\ fanV2Characteristics.currentActive # fanV2Characteristics.targetActive)
        => last'.sent \notin ActuationSignals]_vars

----------------------------------------------------------------------------
(* C8 *)

\* C8: every design.  Whenever a step hands a speed or swing signal to the
\* transmitter, the confirmed power is ON at that moment.
C8_NoActuationWhileOff ==
    [][last'.sent \in ActuationSignals => ConfirmedPowerOn]_vars

\* a queued speed step has just been transmitted
C8_Witness ==
    /\ design = "queue"
    /\ last.sent = IR_DATA_SPEED_INCREASE
    /\ deviceState.power = "ON"

----------------------------------------------------------------------------
(* C9 *)

----------------------------------------------------------------------------
(* C10 *)

\* C10: the stabilized message is logged exactly in the step that takes the
\* fail-cooldown from 1 to 0, and never by a step that handled a failed
\* probe; alive turns true only on a successful probe that finds the cooldown
\* at 0; a failed probe leaves alive false and the cooldown restarted; the
\* cooldown rises only on a failed probe and falls by at most one per step.
C10_RecoveryOncePerEpisode ==
    [][/\ "DEVICE_PING_STABILIZED" \in last'.log
          <=> (PingFail = 1 /\ PingFail' = 0)
       /\ "DEVICE_PING_STABILIZED" \in last'.log => last'.probe # "dead"
       /\ (alive' /\ ~alive) => (PingFail = 0 /\ PingFail' = 0 /\ last'.probe = "alive")
       /\ last'.probe = "dead"
          => /\ ~alive'
             /\ PingFail' = SKIPS_DEVICE_PING_FAIL - 1
             /\ PingFail' > 0
       /\ PingFail' > PingFail => last'.probe = "dead"
       /\ PingFail' >= PingFail - 1]_vars

\* the recovery is reported: the cooldown has just reached 0
C10_Witness ==
    /\ "DEVICE_PING_STABILIZED" \in last.log
    /\ PingFail = 0
    /\ ~alive

----------------------------------------------------------------------------
(* C11 *)

\* the value a get of the attribute is to pass on
AttributeValue(attribute) ==
    IF design = "queue" THEN getter(attribute, deviceState)
    ELSE IF attribute = "Active" THEN fanV2Characteristics.targetActive
    ELSE IF attribute = "RotationSpeed" THEN fanV2Characteristics.targetRotationSpeed
    ELSE fanV2Characteristics.targetSwingMode

\* the loop design keeps no alive flag: the transmitter is known to be out of
\* reach while none is bound or the fail-cooldown runs
Unreachable ==
    IF design = "loop" THEN device = "null" \/ skips.devicePingFail > 0
    ELSE ~alive

QueueWrites == {"setPower", "setSwingMode", "setCurrentSpeed"}
PriorityWrites == {"setTargetActive", "setTargetRotationSpeed", "setTargetSwingMode"}
ErrorMessages == {DEVICE_PING_FAILED, FAN_STATE_OFF, SPEED_NOT_SUPPORTED}

\* C11: in every state the handlers and ticks can see, alive implies that the
\* fail-cooldown counter is 0; a probe that succeeds while the counter is
\* still running leaves alive false and services nothing, also when it is the
\* step that brings the counter to 0.
C11_AliveImpliesCooldownOver ==
    /\ alive => PingFail = 0
    /\ (last.probe = "alive" /\ PingFail > 0) => (~alive /\ last.sent = "none")
    /\ "DEVICE_PING_STABILIZED" \in last.log => (~alive /\ last.sent = "none")

\* a probe has just succeeded inside the cooldown window and is held down
C11_Witness ==
    /\ last.probe = "alive"
    /\ PingFail > 0
    /\ ~alive

----------------------------------------------------------------------------
(* C12 *)

\* C12: every get handler, for every attribute, passes the current value
\* without error while alive, and the connectivity error while the
\* transmitter is out of reach.
C12_GetFollowsLiveness ==
    last.op = "get" =>
        /\ alive => (last.callback = "ok" /\ last.got = <<AttributeValue(last.attribute)>>)
        /\ Unreachable => last.callback = DEVICE_PING_FAILED

----------------------------------------------------------------------------
(* C13 *)

\* C13: queue and priority designs.  Every write handled while alive is false
\* is called back with the connectivity error in the same step and leaves the
\* command queue, the confirmed state, the target and current characteristics
\* and the stored item as they were.
C13_WriteWhileNotAliveRejected ==
    [][(/\ design \in {"queue", "priority"}
        /\ ~alive
        /\ last'.op \in QueueWrites \cup PriorityWrites)
        => /\ last'.callback = DEVICE_PING_FAILED
           /\ commandQueue' = commandQueue
           /\ deviceState' = deviceState
           /\ fanV2Characteristics' = fanV2Characteristics
           /\ storage' = storage]_vars

----------------------------------------------------------------------------
(* C14 *)

\* a counter after one decrement
Decremented(n) == IF n > 0 THEN n - 1 ELSE n

\* the step is a tick that finds the transmitter not alive: the queue design's
\* command tick reads this.alive, the other two take the answer of the probe
\* the tick itself made
NotAliveTick ==
    /\ last'.op = "tick"
    /\ IF design = "queue" THEN ~alive
       ELSE last'.probe = "dead" \/ skips.devicePingFail > 0

\* what a tick leaves alone when it finds the transmitter not alive
NotAliveTickFrame ==
    /\ last'.sent = "none"
    /\ deviceState' = deviceState
    /\ commandQueue' = commandQueue
    /\ inflight' = inflight
    /\ fanV2Characteristics' = fanV2Characteristics
    /\ storage' = storage

\* C14 as stated: a tick that finds the transmitter not alive transmits
\* nothing, leaves the confirmed state unchanged and does not decrement the
\* active and swing cooldowns.
C14_NotAliveTickKeepsActuationCooldowns ==
    [][NotAliveTick
        => /\ NotAliveTickFrame
           /\ skips'.updateCurrentActive = skips.updateCurrentActive
           /\ skips'.updateCurrentSwingMode = skips.updateCurrentSwingMode]_vars

\* C14 (amended): a tick that finds the transmitter not alive transmits
\* nothing and leaves the confirmed state, the queue and the stored item
\* unchanged; in the priority and loop designs it decrements every nonzero
\* cooldown by one, the active and swing cooldowns as well as the ping-fail
\* cooldown (which a failed probe has first restarted); the queue design's
\* command tick decrements nothing.
C14_NotAliveTickDecrementsEveryCooldown ==
    [][NotAliveTick
        => /\ NotAliveTickFrame
           /\ design # "queue"
              => /\ skips'.updateCurrentActive = Decremented(skips.updateCurrentActive)
                 /\ skips'.updateCurrentSwingMode = Decremented(skips.updateCurrentSwingMode)
                 /\ skips'.devicePingFail =
                       IF last'.probe = "dead" THEN SKIPS_DEVICE_PING_FAIL - 1
                       ELSE Decremented(skips.devicePingFail)
           /\ design = "queue" => devicePingFail' = devicePingFail]_vars

\* a probe has just failed in a tick of the priority design while the active
\* cooldown was running: the cooldown has gone down and is still running
C14_Witness ==
    /\ design = "priority"
    /\ last.op = "tick"
    /\ last.probe = "dead"
    /\ skips.updateCurrentActive > 0
    /\ skips.devicePingFail > 0

----------------------------------------------------------------------------
(* C15 *)

\* ids a queued command can carry
CommandIds == 0..(MaxQueue + MaxPolls)

Queued(id) == \E i \in 1..Len(commandQueue) : commandQueue[i].id = id

\* the command is neither queued nor held by a tick between its
\* transmission and the application of its delta
Serviced(id) == ~Queued(id) /\ inflight = << >>

\* C15: queue design, the ticks firing for ever.  (a) A step changes the
\* queue only by appending to it or, when it is a tick that transmits, by
\* removing its head, whose signal is the one transmitted and which the tick
\* then holds; every other command keeps its place.  (b) A command a tick
\* holds is applied by the following step.  (c) A queued command is eventually
\* dequeued, transmitted and applied, unless alive turns false first.
C15_EnqueuedEventuallyServiced ==
    /\ [][\/ /\ last'.sent = "none"
              /\ Len(commandQueue') >= Len(commandQueue)
              /\ SubSeq(commandQueue', 1, Len(commandQueue)) = commandQueue
           \/ /\ last'.op = "tick"
              /\ commandQueue # << >>
              /\ last'.sent = Head(commandQueue).irData
              /\ commandQueue' = Tail(commandQueue)
              /\ inflight' = <<Head(commandQueue)>>]_vars
    /\ (inflight # << >>) ~> (inflight = << >> /\ last.op = "tickApply")
    /\ \A id \in CommandIds : Queued(id) ~> (Serviced(id) \/ ~alive)

\* a speed write of two steps has been serviced to the end: both commands
\* have left the queue and the confirmed speed has moved by two
C15_Witness ==
    /\ design = "queue"
    /\ alive
    /\ last.op = "tickApply"
    /\ commandQueue = << >>
    /\ deviceState.speed = DefaultDeviceState.speed + 2

----------------------------------------------------------------------------
(* C16 *)

\* the state the design keeps in memory and in the store, its default, and
\* what a startup would load from an item
MemoryState == IF design = "queue" THEN deviceState ELSE fanV2Characteristics
DefaultState == IF design = "queue" THEN DefaultDeviceState ELSE DefaultCharacteristics
StateKeys == IF design = "queue" THEN DeviceStateKeys ELSE CharacteristicKeys
StartupState(item) ==
    IF design = "queue" THEN updateCachedState(item) ELSE initFanV2Characteristics(item)

\* C16: (a) in every state, a startup that read the store now would load
\* exactly the state in memory; (b) the state a restart loads is the state
\* the previous run held; (c) a load that finds no item, or one that does not
\* parse, leaves the whole default state; (d) the loaded state is either the
\* whole default or the whole stored object, field for field, never a mix.
C16_StoreRoundTrip ==
    /\ StartupState(storage) = MemoryState
    /\ last.op = "load"
       => /\ last.snapshot # << >> => MemoryState = last.snapshot[1]
          /\ last.item.status \in {"absent", "malformed"} => MemoryState = DefaultState
          /\ \/ MemoryState = DefaultState
             \/ last.item = setItem(MemoryState, StateKeys)

\* the states a first startup can load
FirstStates ==
    {DefaultState} \cup (IF design = "queue" THEN StoredDeviceStates ELSE StoredCharacteristics)

\* a restart has loaded a state that the previous run wrote: neither the
\* default nor a state the store held at first
C16_Witness ==
    /\ last.op = "load"
    /\ last.snapshot # << >>
    /\ last.item.status = "ok"
    /\ MemoryState \notin FirstStates

----------------------------------------------------------------------------
(* C17 *)

\* the step is a tick whose probe found the transmitter alive
AliveTick ==
    /\ last'.op = "tick"
    /\ last'.probe = "alive"
    /\ skips.devicePingFail = 0

StepSize == IF design = "loop" THEN STEP_SIZE ELSE ROTATION_SPEED_STEP_SIZE

----------------------------------------------------------------------------
(* C18 *)

LoopWrites == {"setActive", "setRotationSpeed", "setSwingMode"}
Writes == QueueWrites \cup PriorityWrites \cup LoopWrites

\* C18: a write that is called back with an error (fan off, speed not
\* supported, device ping failed) leaves the command queue, the completion
\* polls, the confirmed state, the characteristics and the stored item as
\* they were; and a speed write of the queue design enqueues either every
\* command of its travel or none.
C18_RejectedWriteChangesNothing ==
    [][/\ (last'.op \in Writes /\ last'.callback \in ErrorMessages)
          => /\ last'.enq = 0
             /\ commandQueue' = commandQueue
             /\ waiters' = waiters
             /\ inflight' = inflight
             /\ deviceState' = deviceState
             /\ fanV2Characteristics' = fanV2Characteristics
             /\ storage' = storage
       /\ last'.op = "setCurrentSpeed"
          => /\ last'.enq = Len(commandQueue') - Len(commandQueue)
             /\ last'.enq \in {0, Abs(DesiredSpeed(last'.value) - EmulatedSpeed)}]_vars

\* a speed write of several steps has just been refused while commands of an
\* earlier write are still queued
C18_Witness ==
    /\ last.op = "setCurrentSpeed"
    /\ last.callback = DEVICE_PING_FAILED
    /\ last.enq = 0
    /\ commandQueue # << >>
    /\ Abs(DesiredSpeed(last.value) - EmulatedSpeed) >= 2

----------------------------------------------------------------------------
(* C19 *)

\* C19: queue design.  The confirmed state changes only in the step that
\* follows a tick's transmission: the tick has handed the command's signal to
\* the transmitter and holds the command, and the change is that command's
\* delta.  Get handlers, set handlers (whose lookahead works on a copy) and
\* completion polls leave the confirmed state and the stored item alone.
C19_ConfirmedStateOnlyAfterTransmission ==
    [][/\ deviceState' # deviceState
          => /\ last'.op = "tickApply"
             /\ inflight # << >>
             /\ last.op = "tick"
             /\ last.sent = inflight[1].irData
             /\ deviceState' = processStateChange(inflight[1].stateChange, deviceState)
       /\ last'.op \in QueueWrites \cup {"get", "poll", "tick"}
          => (deviceState' = deviceState /\ storage' = storage)]_vars

\* a swing command has been transmitted and applied while a later write is
\* still queued: the lookahead is ahead of the confirmed state
C19_Witness ==
    /\ design = "queue"
    /\ last.op = "tickApply"
    /\ deviceState.isSwinging
    /\ commandQueue # << >>
    /\ emulateCompletedState # deviceState

----------------------------------------------------------------------------
(* C20 *)

\* C20: priority design.  A tick that finds the active cooldown nonzero
\* transmits no power command, and a tick that finds the swing cooldown
\* nonzero transmits no swing command.
C20_CooldownBlocksItsClass ==
    [][(design = "priority" /\ last'.op = "tick")
        => /\ skips.updateCurrentActive > 0 => last'.sent # IR_DATA_ACTIVE
           /\ skips.updateCurrentSwingMode > 0 => last'.sent # IR_DATA_SWING_MODE]_vars

----------------------------------------------------------------------------
(* C21 *)

\* every counter of s after one decrement
EveryCounterDecremented(s) ==
    [updateCurrentActive |-> Decremented(s.updateCurrentActive),
     updateCurrentSwingMode |-> Decremented(s.updateCurrentSwingMode),
     devicePingFail |-> Decremented(s.devicePingFail)]

\* C21: priority design, a device bound.  The last thing a tick does is to
\* decrement every counter once: a nonzero counter goes down by exactly one,
\* a zero counter stays zero.  A tick that services nothing does so in the
\* step of its decision, on the counters as the probe left them; a tick that
\* services a command does so in the step after its store write, on the
\* counters as the service left them, and not before.  The decision is taken
\* on the values the tick found: a counter at 1 still blocks the tick that
\* brings it to 0, and a tick that finds every counter at 0 and the device
\* alive services what is pending.
C21_DecrementAfterDecision ==
    [][design = "priority" =>
        /\ (last'.op = "tick" /\ last'.sent = "none")
           => skips' = EveryCounterDecremented(skipsAfterPing(last'.probe = "alive", skips))
        /\ (last'.op = "tick" /\ last'.sent # "none")
           => /\ skips'.updateCurrentActive >= skips.updateCurrentActive
              /\ skips'.updateCurrentSwingMode >= skips.updateCurrentSwingMode
              /\ skips'.devicePingFail = skips.devicePingFail
              /\ persisting' = persisting + 1
        /\ last'.op = "tickPersisted"
           => (skips' = EveryCounterDecremented(skips) /\ persisting' = persisting - 1)
        /\ last'.op \notin {"tick", "tickPersisted"} => skips' = skips
        /\ (last'.op = "tick" /\ skips.updateCurrentActive > 0) => last'.sent = "none"
        /\ (last'.op = "tick" /\ skips.updateCurrentSwingMode > 0)
           => last'.sent \notin {IR_DATA_ACTIVE} \cup SpeedSignals
        /\ (/\ AliveTick
            /\ skips = DefaultSkips
            /\ fanV2Characteristics.currentActive # fanV2Characteristics.targetActive)
           => last'.sent = IR_DATA_ACTIVE]_vars

\* a tick found a counter at 1 and a power change pending: it serviced
\* nothing and left every counter at 0
C21_Witness ==
    /\ design = "priority"
    /\ alive
    /\ last.op = "tick"
    /\ last.probe = "alive"
    /\ last.sent = "none"
    /\ skips = DefaultSkips
    /\ fanV2Characteristics.currentActive # fanV2Characteristics.targetActive

----------------------------------------------------------------------------
(* C22 *)

----------------------------------------------------------------------------
(* C23 *)

\* the swing the newest queued swing command leaves, else the given one
RECURSIVE QueuedSwing(_, _)
QueuedSwing(queue, swinging) ==
    IF queue = << >> THEN swinging
    ELSE QueuedSwing(Tail(queue),
                     IF "isSwinging" \in DOMAIN Head(queue).stateChange
                     THEN Head(queue).stateChange.isSwinging ELSE swinging)

\* C23: queue design.  The lookahead is the confirmed state with the speed
\* deltas of every queued command added up, and the power and the swing of
\* the newest queued command that sets them (the oldest is applied first, so
\* the newest wins); with nothing queued it is the confirmed state.  A set
\* handler, which computes it, leaves the confirmed state as it was and the
\* commands already queued in their places, and a get handler changes
\* neither.
C23_LookaheadAppliesQueueInOrder ==
    [][design = "queue" =>
        /\ emulateCompletedState' =
              [airDirection |-> deviceState'.airDirection,
               isSwinging |-> QueuedSwing(commandQueue', deviceState'.isSwinging),
               power |-> QueuedPower(commandQueue', deviceState'.power),
               speed |-> deviceState'.speed + QueuedSpeedDelta(commandQueue')]
        /\ commandQueue' = << >> => emulateCompletedState' = deviceState'
        /\ last'.op \in QueueWrites
           => /\ deviceState' = deviceState
              /\ SubSeq(commandQueue', 1, Len(commandQueue)) = commandQueue
              /\ last'.enq = 0 => commandQueue' = commandQueue
        /\ last'.op = "get"
           => (deviceState' = deviceState /\ commandQueue' = commandQueue)]_vars

\* a power-on has just been queued behind a power-off: the newest wins, and
\* the lookahead is the confirmed state again although two commands wait
C23_Witness ==
    /\ design = "queue"
    /\ last.op = "setPower"
    /\ last.enq = 1
    /\ Len(commandQueue) = 2
    /\ commandQueue[1].irData = IR_DATA_POWER
    /\ commandQueue[2].irData = IR_DATA_POWER
    /\ deviceState.power = "ON"
    /\ emulateCompletedState = deviceState

----------------------------------------------------------------------------
(* C24 *)

QueuedIds == {commandQueue[i].id : i \in 1..Len(commandQueue)}

\* C24: queue design.  (a) A write that is left pending waits on the command
\* it pushed last: the poll it starts holds the id of the command at the
\* tail of the queue, an id no other command or poll had.  (b) A poll signals
\* success only when its command is no longer queued and no tick holds a
\* command whose delta it has yet to apply; until then it signals nothing.
\* (c) A command waited on leaves the queue or the tick's hands only as the
\* other commands do, and its poll stays until it has signalled.  With the
\* head-first order of the queue, every command the write pushed has been
\* applied when the signal comes.
C24_CompletionAfterApplied ==
    [][design = "queue" =>
        /\ (last'.op \in QueueWrites /\ last'.callback = "pending")
           => /\ commandQueue' # << >>
              /\ waiters' = waiters \cup {commandQueue'[Len(commandQueue')].id}
              /\ commandQueue'[Len(commandQueue')].id \notin waiters \cup QueuedIds
              /\ \A i \in 1..Len(commandQueue') : \A j \in 1..Len(commandQueue') :
                    commandQueue'[i].id = commandQueue'[j].id => i = j
        /\ last'.op = "poll"
           => /\ inflight = << >>
              /\ last'.value \in waiters
              /\ last'.callback = (IF last'.value \in QueuedIds THEN "none" ELSE "ok")
              /\ waiters' = (IF last'.value \in QueuedIds THEN waiters
                             ELSE waiters \ {last'.value})
              /\ deviceState' = deviceState
        /\ last'.op \notin QueueWrites \cup {"poll"} => waiters' = waiters
        /\ last'.callback = "ok" => last'.op \in {"poll", "get"}]_vars

\* the poll of a two-step speed write has just signalled success: both steps
\* have been applied and nothing is queued
C24_Witness ==
    /\ design = "queue"
    /\ last.op = "poll"
    /\ last.callback = "ok"
    /\ commandQueue = << >>
    /\ waiters = {}
    /\ deviceState.speed = DefaultDeviceState.speed + 2

----------------------------------------------------------------------------
(* C25 *)

\* the handlers of the control surface and the completion poll
HandlerSteps == QueueWrites \cup {"get", "poll"}

\* C25: queue design.  A state in which a command has left the queue and its
\* delta is not yet applied is entered only by the tick that transmits it and
\* left only by that tick's continuation, which applies the delta: no write,
\* get or completion poll, and no other timer, takes a step in such a state.
\* So whenever a handler computes the lookahead, every command not yet
\* applied is in the queue.
C25_NoHandlerInsideTick ==
    [][design = "queue" =>
        /\ inflight # << >>
           => /\ last'.op = "tickApply"
              /\ last.op = "tick"
              /\ inflight' = << >>
        /\ last'.op \in HandlerSteps => (inflight = << >> /\ inflight' = << >>)
        /\ inflight' # << >> => (last'.op = "tick" /\ inflight = << >>)]_vars

\* a tick holds a command it has removed and transmitted, and a poll is
\* waiting on that very command
C25_Witness ==
    /\ design = "queue"
    /\ inflight # << >>
    /\ inflight[1].id \in waiters
    /\ last.op = "tick"

----------------------------------------------------------------------------
(* C26 *)

\* the steps that commit a change of the state a design keeps
CommittingSteps == {"tickApply", "tick"} \cup PriorityWrites \cup LoopWrites

\* C26: every step that changes the state kept in memory is a tick that
\* applies a command or an accepted target write, and it writes the store:
\* the item it leaves parses back to the whole state as the step left it.
\* The queue design's tick writes whenever it applies a delta, and a tick of
\* the other designs whenever it services a command.  No step writes anything
\* else to the store.
C26_EveryChangeIsStored ==
    [][/\ MemoryState' # MemoryState
          => (last'.op \in CommittingSteps /\ storage' # storage)
       /\ last'.op = "tickApply" => storage' # storage
       /\ (design # "queue" /\ last'.op = "tick" /\ last'.sent # "none")
          => storage' # storage
       /\ storage' # storage
          => /\ last'.op \in CommittingSteps
             /\ getItem(storage') = <<MemoryState'>>]_vars

\* an accepted target write has just been stored while the current speed is
\* still on its way
C26_Witness ==
    /\ design = "priority"
    /\ last.op = "setTargetRotationSpeed"
    /\ last.callback = "ok"
    /\ fanV2Characteristics.targetRotationSpeed # fanV2Characteristics.currentRotationSpeed
    /\ getItem(storage) = <<fanV2Characteristics>>
    /\ fanV2Characteristics \notin FirstStates

----------------------------------------------------------------------------
(* C27 *)

LowerCaseCharacter(c) ==
    IF c = "A" THEN "a" ELSE IF c = "B" THEN "b" ELSE IF c = "C" THEN "c"
    ELSE IF c = "D" THEN "d" ELSE c

\* the two MAC strings are the same but for the case of their letters
SameIgnoringCase(a, b) ==
    /\ Len(Characters(a)) = Len(Characters(b))
    /\ \A i \in 1..Len(Characters(a)) :
          LowerCaseCharacter(Characters(a)[i]) = LowerCaseCharacter(Characters(b)[i])

\* C27: while no device is bound, a deviceReady event binds the device it
\* announces if no macAddress is configured, or if the configured one is the
\* device's MAC but for the case of its letters, and binds nothing otherwise;
\* a device is bound by no other step; and once a device is bound, no step
\* replaces or unbinds it.
C27_BindsFirstMatchingDevice ==
    [][/\ device # "null" => device' = device
       /\ device' # device => (last'.op = "deviceReady" /\ device' = last'.mac)
       /\ (last'.op = "deviceReady" /\ device = "null")
          => device' = IF macAddress = "undefined" THEN last'.mac
                       ELSE IF SameIgnoringCase(macAddress, last'.mac) THEN last'.mac
                       ELSE "null"]_vars

\* the device configured in lower case is bound, and the event of the other
\* device that has just come in has not replaced it
C27_Witness ==
    /\ macAddress = "aa:bb"
    /\ device = "AA:BB"
    /\ last.op = "deviceReady"
    /\ last.mac = "CC:DD"

----------------------------------------------------------------------------
(* C28 *)

\* the steps a timer callback takes
TimerSteps == {"tick", "tickStart", "tickApply", "tickPersisted", "discover", "pingStart", "ping"}

\* C28: while no device is bound, the only steps a timer takes are the
\* request for a discovery and, in the queue design, the command tick that
\* finds nothing to do.  Such a step transmits nothing and leaves the
\* confirmed state, the queue, the characteristics, the stored item and the
\* active and swing cooldowns as they were; no probe is started and no
\* command is serviced although a target write may be pending.
C28_UnboundTickOnlyDiscovers ==
    [][(device = "null" /\ last'.op \in TimerSteps)
        => /\ last'.op \in {"discover", "tick"}
           /\ last'.op = "tick" => design = "queue"
           /\ last'.op = "discover" => discovering'
           /\ last'.sent = "none"
           /\ last'.probe = "none"
           /\ probing' = 0
           /\ deviceState' = deviceState
           /\ commandQueue' = commandQueue
           /\ inflight' = inflight
           /\ fanV2Characteristics' = fanV2Characteristics
           /\ storage' = storage
           /\ skips'.updateCurrentActive = skips.updateCurrentActive
           /\ skips'.updateCurrentSwingMode = skips.updateCurrentSwingMode
           /\ alive' = alive
           /\ device' = device]_vars

\* no device is bound, a tick of the loop design has just asked for a
\* discovery, and a requested power-on is left waiting
C28_Witness ==
    /\ design = "loop"
    /\ device = "null"
    /\ last.op = "discover"
    /\ fanV2Characteristics.targetActive = ACTIVE
    /\ fanV2Characteristics.currentActive = INACTIVE

----------------------------------------------------------------------------
(* C29 *)

\* the confirmed state with every command not yet applied on top of it: the
\* one a tick holds, then the queued ones
PendingLookahead == ApplyQueue(inflight \o commandQueue, deviceState)

\* C29: queue design.  The lookahead computed before a tick takes the head
\* of the queue is the lookahead computed after the tick has applied it: the
\* confirmed state with all outstanding commands on top does not change in a
\* tick, nor in its continuation, nor in any step but a write that enqueues;
\* outside a tick it is what emulateCompletedState returns.  Hence when the
\* queue has drained the confirmed state is the lookahead the last enqueuing
\* write left.
C29_ServicingKeepsLookahead ==
    [][design = "queue" =>
        /\ (last'.op \notin QueueWrites \/ last'.enq = 0)
           => PendingLookahead' = PendingLookahead
        /\ last'.op = "tick" /\ last'.sent # "none"
           => ApplyQueue(commandQueue',
                         processStateChange(Head(commandQueue).stateChange, deviceState))
              = emulateCompletedState
        /\ last'.op = "tickApply" => emulateCompletedState' = PendingLookahead
        /\ (commandQueue' = << >> /\ inflight' = << >>) => deviceState' = PendingLookahead']_vars

\* the first of two queued speed steps has been applied: the confirmed speed
\* has moved by one and the lookahead is where it was, one step further
C29_Witness ==
    /\ design = "queue"
    /\ last.op = "tickApply"
    /\ Len(commandQueue) = 1
    /\ deviceState.speed = DefaultDeviceState.speed + 1
    /\ emulateCompletedState.speed = DefaultDeviceState.speed + 2

----------------------------------------------------------------------------
(* C30 *)

\* the other value of a 0/1 characteristic
Opposite(value) == 1 - value

\* C30: a toggle command is never serviced as a no-op.  Queue design: the
\* continuation of a tick that transmitted IR_DATA_POWER leaves the confirmed
\* power at the other of ON and OFF, and one that transmitted
\* IR_DATA_SWING_MODE leaves isSwinging negated.  Priority and loop designs:
\* a tick that transmits the power signal leaves currentActive at the
\* opposite value, and one that transmits the swing signal leaves
\* currentSwingMode at the opposite value.
C30_ToggleServicedFlips ==
    [][/\ (last'.op = "tickApply" /\ inflight # << >>)
          => /\ inflight[1].irData = IR_DATA_POWER
                => {deviceState.power, deviceState'.power} = {"ON", "OFF"}
             /\ inflight[1].irData = IR_DATA_SWING_MODE
                => deviceState'.isSwinging = ~deviceState.isSwinging
       /\ (design \in {"priority", "loop"} /\ last'.op = "tick")
          => /\ last'.sent = IR_DATA_ACTIVE
                => fanV2Characteristics'.currentActive
                   = Opposite(fanV2Characteristics.currentActive)
             /\ last'.sent = IR_DATA_SWING_MODE
                => fanV2Characteristics'.currentSwingMode
                   = Opposite(fanV2Characteristics.currentSwingMode)]_vars

\* a power-off has just been applied with a power-on queued behind it: only
\* a power command can precede a power-on when the confirmed power is OFF,
\* since speed and swing writes are refused while the lookahead is OFF
C30_Witness ==
    /\ design = "queue"
    /\ last.op = "tickApply"
    /\ deviceState.power = "OFF"
    /\ Len(commandQueue) = 1
    /\ commandQueue[1].irData = IR_DATA_POWER
    /\ commandQueue[1].stateChange = PowerCommand(1).stateChange

----------------------------------------------------------------------------
(* C31 *)

\* C31: queue design, device alive.  Every invocation of a set handler leads
\* to one call of its completion callback: the handler calls it itself (with
\* an error) or starts the poll that will call it (callback "pending"); a
\* write that needs no command, the value being the emulated one already, is
\* among them.
C31_EveryWriteCallsBack ==
    [][(design = "queue" /\ alive /\ last'.op \in QueueWrites)
        => (last'.callback \in ErrorMessages \cup {"ok", "pending"})]_vars

----------------------------------------------------------------------------
(* C32 *)

\* the distance between current and target speed
SpeedDistance(c) ==
    IF c.currentRotationSpeed < c.targetRotationSpeed
    THEN c.targetRotationSpeed - c.currentRotationSpeed
    ELSE c.currentRotationSpeed - c.targetRotationSpeed

\* the current characteristics have reached the targets: power always, speed
\* and swing when the target power is ACTIVE
Converged ==
    LET c == fanV2Characteristics
    IN  /\ c.currentActive = c.targetActive
        /\ (c.targetActive = ACTIVE)
           => /\ c.currentRotationSpeed = c.targetRotationSpeed
              /\ c.currentSwingMode = c.targetSwingMode

\* from some step on: no write arrives and no probe fails
NoWriteNoFailure ==
    <>[][last'.op \notin PriorityWrites /\ last'.probe # "dead"]_vars

\* C32: priority design, the interval firing for ever.  (a) If a device is
\* bound and from some step on no write arrives and every probe succeeds,
\* then from some state on the current characteristics stay at the targets:
\* current Active equals target Active, and with target Active ACTIVE the
\* current speed and swing equal their targets.  (b) A tick that starts from
\* such a state transmits nothing and leaves the characteristics unchanged.
\* (c) A tick that transmits a speed signal leaves the distance between
\* current and target speed strictly smaller.
C32_Converges ==
    /\ (<>(device # "null") /\ NoWriteNoFailure) => <>[]Converged
    /\ [][/\ (Converged /\ last'.op \in {"tick", "tickPersisted"})
              => /\ last'.sent = "none"
                 /\ fanV2Characteristics' = fanV2Characteristics
          /\ (last'.sent \in {IR_DATA_ROTATION_SPEED_UP, IR_DATA_ROTATION_SPEED_DOWN})
              => (SpeedDistance(fanV2Characteristics') < SpeedDistance(fanV2Characteristics))]_vars

\* the last speed step down has been serviced with power and swing reached
\* before: everything requested is confirmed
C32_Witness ==
    /\ design = "priority"
    /\ last.sent = IR_DATA_ROTATION_SPEED_DOWN
    /\ fanV2Characteristics.targetActive = ACTIVE
    /\ fanV2Characteristics.targetSwingMode = SWING_ENABLED
    /\ fanV2Characteristics.targetRotationSpeed = ROTATION_SPEED_STEP_SIZE
    /\ Converged

----------------------------------------------------------------------------
(* C33 *)

\* the set requests of the queue and priority designs: handler and value
SetRequests ==
    ({"setPower", "setSwingMode", "setTargetActive", "setTargetSwingMode"} \X ToggleValues)
    \cup ({"setCurrentSpeed"} \X SpeedValues)
    \cup ({"setTargetRotationSpeed"} \X TargetSpeedValues)

\* nothing is left to do for the request: the lookahead over every
\* outstanding command (queue design) or the target (priority design)
\* already has the value, or the queue design refuses the request for the
\* lookahead it finds
Settled(request) ==
    LET op == request[1]
        v == request[2]
        s == PendingLookahead
        c == fanV2Characteristics
    IN  IF op = "setPower" THEN s.power = (IF v = 0 THEN "OFF" ELSE "ON")
        ELSE IF op = "setSwingMode" THEN s.power = "OFF" \/ s.isSwinging = (v = 1)
        ELSE IF op = "setCurrentSpeed"
        THEN \/ s.speed = DesiredSpeed(v)
             \/ s.power = "OFF"
             \/ s.speed < 0
             \/ s.speed > MaxSpeedStep
        ELSE IF op = "setTargetActive" THEN c.targetActive = v
        ELSE IF op = "setTargetSwingMode" THEN c.targetSwingMode = v
        ELSE c.targetRotationSpeed = (IF v < ROTATION_SPEED_STEP_SIZE
                                      THEN ROTATION_SPEED_STEP_SIZE ELSE v)

\* the step is the handler of the request
Requested(request) == last'.op = request[1] /\ last'.value = request[2]

\* a repeated request finds nothing left to do and does nothing: once the
\* request is settled it stays settled over every step that is no write, and
\* the same request made in a settled state enqueues no command and changes
\* no target
RepeatDoesNothing(request) ==
    /\ (Settled(request) /\ last'.op \notin QueueWrites \cup PriorityWrites)
       => Settled(request)'
    /\ (Settled(request) /\ Requested(request))
       => /\ last'.enq = 0
          /\ commandQueue' = commandQueue
          /\ fanV2Characteristics' = fanV2Characteristics

\* C33 as stated: whatever became of the first request, the same request
\* issued again, with or without ticks in between and no other write in
\* between, enqueues no command (queue design) and changes no target
\* (priority design): every request leaves itself settled.
C33_RepeatedWriteIdempotent ==
    [][design # "loop" =>
        \A request \in SetRequests :
            /\ Requested(request) => Settled(request)'
            /\ RepeatDoesNothing(request)]_vars

\* C33: a request handled while alive is true leaves itself settled; a
\* settled request stays settled over ticks, polls, probes and reads; and
\* the same request made again enqueues no command (queue design) and changes
\* no target (priority design).
C33_RepeatAfterAliveWriteIdempotent ==
    [][design # "loop" =>
        \A request \in SetRequests :
            /\ (alive /\ Requested(request)) => Settled(request)'
            /\ RepeatDoesNothing(request)]_vars

\* power-off written a second time while the command of the first is still
\* queued: nothing was enqueued for it
C33_Witness ==
    /\ design = "queue"
    /\ last.op = "setPower"
    /\ last.value = 0
    /\ last.enq = 0
    /\ deviceState.power = "ON"
    /\ Len(commandQueue) = 1
    /\ commandQueue[1].irData = IR_DATA_POWER

----------------------------------------------------------------------------
(* C34 *)

\* C34: queue design.  (a) While alive is false no step changes the queue
\* and none transmits: a tick leaves the queue as it is, a write is refused.
\* (b) Whenever the queue changes, it was extended at its end by a write or
\* lost its head to a tick that found alive true, transmitted that head's
\* signal and holds that command; so the commands an outage finds queued
\* are serviced after it in their order, one per tick.
C34_QueueSurvivesOutage ==
    [][design = "queue" =>
        /\ ~alive => (commandQueue' = commandQueue /\ last'.sent = "none" /\ inflight' = << >>)
        /\ commandQueue' # commandQueue
           => \/ /\ last'.op \in QueueWrites
                 /\ Len(commandQueue') > Len(commandQueue)
                 /\ SubSeq(commandQueue', 1, Len(commandQueue)) = commandQueue
              \/ /\ last'.op = "tick"
                 /\ alive
                 /\ commandQueue' = Tail(commandQueue)
                 /\ last'.sent = Head(commandQueue).irData
                 /\ inflight' = <<Head(commandQueue)>>]_vars

\* a tick during an outage with two commands queued: nothing transmitted,
\* both still queued in the order they were written
C34_Witness ==
    /\ design = "queue"
    /\ ~alive
    /\ last.op = "tick"
    /\ last.sent = "none"
    /\ Len(commandQueue) = 2
    /\ commandQueue[1].irData = IR_DATA_POWER
    /\ commandQueue[2].irData = IR_DATA_SWING_MODE

----------------------------------------------------------------------------
(* C35 *)

\* C35: priority design, up to MaxOverlap tick callbacks in flight together.
\* (a) A tick transmits the power signal only when current and target Active
\* differ, and leaves them equal; likewise the swing signal and current and
\* target SwingMode.  (b) A tick that transmits a speed signal moves the
\* current speed one step towards the target and not past it.  (c) A step
\* that is no write opens no difference: equal Active or SwingMode stay
\* equal and the speed distance does not grow.  So a difference a write opened
\* is closed by one transmission (one per speed step), and a second callback
\* resuming after it finds nothing left to transmit for that change.
C35_OverlappingTicksTransmitOnce ==
    [][LET c == fanV2Characteristics
           d == fanV2Characteristics'
       IN  /\ last'.sent = IR_DATA_ACTIVE
              => (c.currentActive # c.targetActive /\ d.currentActive = d.targetActive)
           /\ last'.sent = IR_DATA_SWING_MODE
              => (c.currentSwingMode # c.targetSwingMode
                  /\ d.currentSwingMode = d.targetSwingMode)
           /\ (last'.sent \in {IR_DATA_ROTATION_SPEED_UP, IR_DATA_ROTATION_SPEED_DOWN})
              => /\ SpeedDistance(d) = SpeedDistance(c) - ROTATION_SPEED_STEP_SIZE
                 /\ (c.currentRotationSpeed < c.targetRotationSpeed)
                    => (d.currentRotationSpeed <= d.targetRotationSpeed)
                 /\ (c.currentRotationSpeed > c.targetRotationSpeed)
                    => (d.currentRotationSpeed >= d.targetRotationSpeed)
           /\ last'.op \notin PriorityWrites
              => /\ (c.currentActive = c.targetActive) => (d.currentActive = d.targetActive)
                 /\ (c.currentSwingMode = c.targetSwingMode)
                    => (d.currentSwingMode = d.targetSwingMode)
                 /\ SpeedDistance(d) <= SpeedDistance(c)]_vars

\* a second callback has resumed and ended while the first, which sent the
\* power-on signal, still awaits setItem: it transmitted nothing, and the
\* active cooldown the first one set has been decremented by the second
C35_Witness ==
    /\ design = "priority"
    /\ persisting > 0
    /\ last.op = "tick"
    /\ last.probe = "alive"
    /\ last.sent = "none"
    /\ fanV2Characteristics.currentActive = ACTIVE
    /\ fanV2Characteristics.targetActive = ACTIVE
    /\ skips.updateCurrentActive = SKIPS_UPDATE_CURRENT_ACTIVE_ACTIVE - 1

====
